---- MODULE Spec2Model ----
(***************************************************************************)
(* Inner maximizers for robust adversarial training (inner_maximizers.py). *)
(*                                                                         *)
(* Every tensor operation of the module is elementwise or a reduction      *)
(* along dim 1, so the rows of a batch do not interact; the one exception  *)
(* is grams, whose width k is doubled when any row of the batch improves.  *)
(* The model follows one row of the batch (x is that row); in grams the    *)
(* rest of the batch is the boolean "some other row was replaced".         *)
(*                                                                         *)
(* The classifier and the loss are opaque: the loss of a binary vector is  *)
(* fixed for the whole call (lossOf, filled in as the code evaluates it),  *)
(* and every gradient the code asks for is an arbitrary vector over        *)
(* GradValues.  Relaxed (fractional) feature values of dfgsm_k / rfgsm_k   *)
(* are kept in hundredths: 1.0 is Unit, epsilon = 0.02 is 2.               *)
(***************************************************************************)
EXTENDS Integers, FiniteSets, Sequences, TLC

\* ---------------------------------------------------------------- bounds
NF == 2
MaxIter == 2
MaxSteps == 3

\* ------------------------------------------------------- program constants
EpsDefault == 2
AlphaDefault == 50
KDefault == 8
TopkCap == 1024

Unit == 2 * AlphaDefault
Feat == 1..NF
Bit == {0, 1}
BinVec == [Feat -> Bit]
LossValues == 0..2
Unknown == 0 - 1
GradValues == {0 - 1, 0, 1}
GradVec == [Feat -> GradValues]
\* draws of torch.rand, a value of [0, 1), in hundredths
RandDraws == {0, AlphaDefault, Unit - 1}
RandVec == [Feat -> RandDraws]
EpsValues == {EpsDefault, AlphaDefault + 10}
AlphaValues == {0, AlphaDefault}
GramsK == {1, 2, KDefault}
Methods == {"dfgsm_k", "rfgsm_k", "bga_k", "bca_k", "grosse", "grams", "natural"}
MethodIds == Methods \cup {"bogus"}
BitStrategies == {"bga_k", "bca_k", "grosse_k"}
FgsmStrategies == {"dfgsm_k", "rfgsm_k"}

ZeroVec == [i \in Feat |-> 0]

VARIABLES
    x,            \* the input row (never written)
    method,       \* the identifier given to inner_maximizer, "" for a direct call
    fn,           \* the strategy function that was entered
    pc,           \* "idle", "loop", "done", "error"
    k,            \* iteration budget of the strategy (steps, in grams)
    t,            \* loop counter: iterations completed
    use_sample,
    epsilon,
    alpha,
    x_next,       \* the candidate (bits; hundredths inside dfgsm_k / rfgsm_k)
    x_prev,       \* the candidate before the last update (before the fallback, in
                  \* dfgsm_k / rfgsm_k)
    grad,         \* grad_data of the last update
    loss,         \* loss of the last forward pass on the candidate
    loss_natural,
    loss_worst,
    x_worst,
    x_best,
    gk,           \* grams: 4 * k (k is halved down to 0.25)
    lossOf,       \* the loss of each binary vector; Unknown until evaluated
    max_seen,     \* the largest loss evaluated so far in bga_k, bca_k, grosse_k
    others,       \* grams: some other row of the batch was replaced in the last iteration
    queried,      \* the model has been invoked
    result        \* the returned row

vars == <<x, method, fn, pc, k, t, use_sample, epsilon, alpha, x_next, x_prev, grad,
          loss, loss_natural, loss_worst, x_worst, x_best, gk, lossOf, max_seen,
          others, queried, result>>

\* ------------------------------------------------------ utils (utils.utils)
or_float_tensors(a, b) == [i \in Feat |-> IF a[i] = 1 \/ b[i] = 1 THEN 1 ELSE 0]

xor_float_tensors(a, b) == [i \in Feat |-> IF a[i] # b[i] THEN 1 ELSE 0]

clip_tensor(v) == [i \in Feat |-> IF v[i] < 0 THEN 0 ELSE IF v[i] > Unit THEN Unit ELSE v[i]]

\* ------------------------------------------------------------------ helpers
\* (x > alpha).float(), alpha given per component
round_x(v, a) == [i \in Feat |-> IF v[i] > a[i] THEN 1 ELSE 0]

Scalar(a) == [i \in Feat |-> a]

\* get_x0; rnd is torch.rand(x.size())
get_x0(xr, is_sample, rnd) ==
    IF is_sample THEN or_float_tensors(xr, round_x(rnd, Scalar(AlphaDefault))) ELSE xr

\* the starting points get_x0 can return
X0Set(is_sample) ==
    IF is_sample THEN {get_x0(x, TRUE, rnd) : rnd \in RandVec} ELSE {get_x0(x, FALSE, ZeroVec)}

\* ------------------------------------------------- the opaque model and loss
\* l can be the loss of v under the losses m seen so far
Consistent(m, l, v) == m[v] \in {Unknown, l}

Learn(m, l, v) == [m EXCEPT ![v] = l]

Max(S) == CHOOSE a \in S : \A b \in S : a >= b

Min2(a, b) == IF a < b THEN a ELSE b

Max2(a, b) == IF a > b THEN a ELSE b

Sign(a) == IF a > 0 THEN 1 ELSE IF a < 0 THEN 0 - 1 ELSE 0

SumSq(g) == LET RECURSIVE S(_)
                S(i) == IF i = 0 THEN 0 ELSE g[i] * g[i] + S(i - 1)
            IN S(NF)

\* ------------------------------------------------------------------- Init
Init ==
    /\ x \in BinVec
    /\ method = ""
    /\ fn = ""
    /\ pc = "idle"
    /\ k = 0
    /\ t = 0
    /\ use_sample = FALSE
    /\ epsilon = 0
    /\ alpha = 0
    /\ x_next = ZeroVec
    /\ x_prev = ZeroVec
    /\ grad = ZeroVec
    /\ loss = 0
    /\ loss_natural = 0
    /\ loss_worst = 0
    /\ x_worst = ZeroVec
    /\ x_best = ZeroVec
    /\ gk = 0
    /\ lossOf = [v \in BinVec |-> Unknown]
    /\ max_seen = 0
    /\ others = FALSE
    /\ queried = FALSE
    /\ result = ZeroVec

\* ------------------------------------------- bga_k, bca_k, grosse_k: updates
\* x_update of bga_k: sqrt(m) * (1 - 2 x) * grad >= ||grad||_2
BgaUpdate(xn, g) ==
    [i \in Feat |->
        LET s == (1 - 2 * xn[i]) * g[i]
        IN  IF s >= 0 /\ NF * s * s >= SumSq(g) THEN 1 ELSE 0]

\* bga_k without the projection onto the feasible set
BgaNextNoProjection(xn, g, xo) == xor_float_tensors(BgaUpdate(xn, g), xn)

BgaNext(xn, g, xo) == or_float_tensors(xor_float_tensors(BgaUpdate(xn, g), xn), xo)

BcaAugGrad(xn, g) == [i \in Feat |-> (1 - 2 * xn[i]) * g[i]]

\* x_update of bca_k: every component whose score reaches the top-1 value
BcaUpdate(xn, g) ==
    LET aug == BcaAugGrad(xn, g)
        val == Max({aug[i] : i \in Feat})
    IN  [i \in Feat |-> IF aug[i] >= val THEN 1 ELSE 0]

\* bca_k without the projection onto the feasible set
BcaNextNoProjection(xn, g, xo) == xor_float_tensors(BcaUpdate(xn, g), xn)

BcaNext(xn, g, xo) == or_float_tensors(xor_float_tensors(BcaUpdate(xn, g), xn), xo)

GrosseAugGrad(xn, g) == [i \in Feat |-> (1 - xn[i]) * g[i]]

\* x_update of grosse_k: the score is (1 - x) * grad
GrosseUpdate(xn, g) ==
    LET aug == GrosseAugGrad(xn, g)
        val == Max({aug[i] : i \in Feat})
    IN  [i \in Feat |-> IF aug[i] >= val THEN 1 ELSE 0]

\* grosse_k without the projection onto the feasible set
GrosseNextNoProjection(xn, g, xo) == xor_float_tensors(GrosseUpdate(xn, g), xn)

GrosseNext(xn, g, xo) == or_float_tensors(xor_float_tensors(GrosseUpdate(xn, g), xn), xo)

\* the tracker replaced on an equal loss too
ReplaceFlagNotStrict(l, lw) == l >= lw

\* replace_flag = (loss.data > loss_worst)
ReplaceFlag(l, lw) == l > lw

\* natural loss and the best-seen tracker, before the loop
StartBit(f, kk, us) ==
    /\ pc = "idle"
    /\ \E l \in LossValues :
        /\ Consistent(lossOf, l, x)
        /\ lossOf' = Learn(lossOf, l, x)
        /\ loss_natural' = l
        /\ loss_worst' = l
        /\ max_seen' = l
    /\ x_worst' = x
    /\ fn' = f
    /\ k' = kk
    /\ use_sample' = us
    /\ t' = 0
    /\ pc' = "loop"
    /\ queried' = TRUE
    /\ UNCHANGED <<x, epsilon, alpha, x_next, x_prev, grad, loss, x_best, gk, result, others>>

bga_k(kk, us) == StartBit("bga_k", kk, us)

bca_k(kk, us) == StartBit("bca_k", kk, us)

grosse_k(kk, us) == StartBit("grosse_k", kk, us)

\* forward pass on the new candidate and update of the best-seen tracker
TrackWorst(cand, g) ==
    \E l \in LossValues :
        /\ Consistent(lossOf, l, cand)
        /\ lossOf' = Learn(lossOf, l, cand)
        /\ loss' = l
        /\ max_seen' = Max2(max_seen, l)
        /\ loss_worst' = IF ReplaceFlag(l, loss_worst) THEN l ELSE loss_worst
        /\ x_worst' = IF ReplaceFlag(l, loss_worst) THEN cand ELSE x_worst
        /\ x_prev' = IF t = 0 THEN cand ELSE x_next
        /\ x_next' = cand
        /\ grad' = g
        /\ t' = t + 1
        /\ UNCHANGED <<x, method, fn, pc, k, use_sample, epsilon, alpha, loss_natural,
                       x_best, gk, queried, result, others>>

BgaIter ==
    /\ pc = "loop" /\ fn = "bga_k" /\ t < k
    /\ \/ t = 0 /\ \E c \in X0Set(use_sample) : TrackWorst(c, ZeroVec)
       \/ t > 0 /\ \E g \in GradVec : TrackWorst(BgaNext(x_next, g, x), g)

BcaIter ==
    /\ pc = "loop" /\ fn = "bca_k" /\ t < k
    /\ \/ t = 0 /\ \E c \in X0Set(use_sample) : TrackWorst(c, ZeroVec)
       \/ t > 0 /\ \E g \in GradVec : TrackWorst(BcaNext(x_next, g, x), g)

GrosseIter ==
    /\ pc = "loop" /\ fn = "grosse_k" /\ t < k
    /\ \/ t = 0 /\ \E c \in X0Set(use_sample) : TrackWorst(c, ZeroVec)
       \/ t > 0 /\ \E g \in GradVec : TrackWorst(GrosseNext(x_next, g, x), g)

\* return x_worst
BitReturn ==
    /\ pc = "loop" /\ fn \in BitStrategies /\ t = k
    /\ result' = x_worst
    /\ pc' = "done"
    /\ UNCHANGED <<x, method, fn, k, t, use_sample, epsilon, alpha, x_next, x_prev, grad,
                   loss, loss_natural, loss_worst, x_worst, x_best, gk, lossOf, max_seen,
                   queried, others>>

\* ------------------------------------------------------- dfgsm_k, rfgsm_k
ToRelaxed(v) == [i \in Feat |-> Unit * v[i]]

\* natural loss and the starting point, before the loop
StartFgsm(f, kk, eps, al, us) ==
    /\ pc = "idle"
    /\ \E l \in LossValues :
        /\ Consistent(lossOf, l, x)
        /\ lossOf' = Learn(lossOf, l, x)
        /\ loss_natural' = l
    /\ \E c \in X0Set(us) : x_next' = ToRelaxed(c)
    /\ fn' = f
    /\ k' = kk
    /\ epsilon' = eps
    /\ alpha' = al
    /\ use_sample' = us
    /\ t' = 0
    /\ pc' = "loop"
    /\ queried' = TRUE
    /\ UNCHANGED <<x, x_prev, grad, loss, loss_worst, x_worst, x_best, gk, max_seen,
                   result, others>>

dfgsm_k(kk, eps, al, us) == StartFgsm("dfgsm_k", kk, eps, al, us)

rfgsm_k(kk, eps, us) == StartFgsm("rfgsm_k", kk, eps, 0, us)

\* x_next + epsilon * sign(grad), clipped to [0, 1]
FgsmStepRow(xn, g, eps) == clip_tensor([i \in Feat |-> xn[i] + eps * Sign(g[i])])

FgsmStep(f) ==
    /\ pc = "loop" /\ fn = f /\ t < k
    /\ \E g \in GradVec : x_next' = FgsmStepRow(x_next, g, epsilon)
    /\ t' = t + 1
    /\ UNCHANGED <<x, method, fn, pc, k, use_sample, epsilon, alpha, x_prev, grad, loss,
                   loss_natural, loss_worst, x_worst, x_best, gk, lossOf, max_seen,
                   queried, result, others>>

DfgsmStep == FgsmStep("dfgsm_k")

RfgsmStep == FgsmStep("rfgsm_k")

\* the fallback comparison the wrong way round
FallbackFlagReversed(la, ln) == la > ln

\* replace_flag = (loss_adv < loss_natural)
FallbackFlag(la, ln) == la < ln

\* x_next[replace_flag] = x[replace_flag]
FallbackRow(xa, xo, la, ln) == IF FallbackFlag(la, ln) THEN xo ELSE xa

\* rounding with the thresholds al, feasible projection, fallback to x, return
FgsmFinish(f, al) ==
    /\ pc = "loop" /\ fn = f /\ t = k
    /\ LET adv == or_float_tensors(round_x(x_next, al), x)
       IN  \E la \in LossValues :
              /\ Consistent(lossOf, la, adv)
              /\ lossOf' = Learn(lossOf, la, adv)
              /\ loss' = la
              /\ x_prev' = adv
              /\ result' = FallbackRow(adv, x, la, loss_natural)
    /\ x_next' = ToRelaxed(result')
    /\ pc' = "done"
    /\ UNCHANGED <<x, method, fn, k, t, use_sample, epsilon, alpha, grad,
                   loss_natural, loss_worst, x_worst, x_best, gk, max_seen, queried, others>>

DfgsmFinish == FgsmFinish("dfgsm_k", Scalar(alpha))

RfgsmFinish == \E al \in RandVec : FgsmFinish("rfgsm_k", al)

\* ------------------------------------------------------------------ grams
\* grads -= x_next * grads
GramsMasked(xn, g) == [i \in Feat |-> g[i] - xn[i] * g[i]]

\* grads = (signs - x_next) * grads, with signs = gt(grads, 0)
GramsScore(xn, g) ==
    LET m == GramsMasked(xn, g)
    IN  [i \in Feat |-> ((IF m[i] > 0 THEN 1 ELSE 0) - xn[i]) * m[i]]

\* signs += x_next
GramsSigns(xn, g) ==
    LET m == GramsMasked(xn, g)
    IN  [i \in Feat |-> (IF m[i] > 0 THEN 1 ELSE 0) + xn[i]]

\* min(1024, max(1, int(k))), k = w / 4
TopkWidth(w) == Min2(TopkCap, Max2(1, w \div 4))

\* the index sets topk may return: kk components, none scoring below one left out
TopkSets(score, kk) ==
    {S \in SUBSET Feat : /\ Cardinality(S) = kk
                         /\ \A i \in S : \A j \in Feat \ S : score[i] >= score[j]}

\* x_next.scatter_(index=kidx, src=signs.gather(index=kidx))
Scatter(xn, S, src) == [i \in Feat |-> IF i \in S THEN src[i] ELSE xn[i]]

\* the candidates one iteration can produce from xn
GramsCandidates(xn, w) ==
    {Scatter(xn, S, GramsSigns(xn, g)) :
        <<g, S>> \in {p \in GradVec \X SUBSET Feat :
                        p[2] \in TopkSets(GramsScore(xn, p[1]), TopkWidth(w))}}

\* the best replaced on an equal loss too
GramsReplaceFlagNotStrict(lc, lb) == lc >= lb

\* replace_flag = (loss_current > loss_best)
GramsReplaceFlag(lc, lb) == lc > lb

\* k *= 2 if some row was replaced, else k *= 0.5 (on 4 * k)
GramsNextK(w, any) == IF any THEN w * 2 ELSE w \div 2

\* x_best[replace_flag, :] = x_next[replace_flag, :]
GramsNextBest(xb, xn, lc, lb) == IF GramsReplaceFlag(lc, lb) THEN xn ELSE xb

grams(k0) ==
    /\ pc = "idle"
    /\ x_best' = x
    /\ x_next' = x
    /\ gk' = 4 * k0
    /\ fn' = "grams"
    /\ k' = MaxSteps
    /\ t' = 0
    /\ pc' = "loop"
    /\ UNCHANGED <<x, use_sample, epsilon, alpha, x_prev, grad, loss, loss_natural,
                   loss_worst, x_worst, lossOf, max_seen, queried, result, others>>

\* topk raises when the width exceeds the number of features
GramsTopkError ==
    /\ pc = "loop" /\ fn = "grams" /\ t < k /\ gk >= 2
    /\ TopkWidth(gk) > NF
    /\ pc' = "error"
    /\ queried' = TRUE
    /\ UNCHANGED <<x, method, fn, k, t, use_sample, epsilon, alpha, x_next, x_prev, grad,
                   loss, loss_natural, loss_worst, x_worst, x_best, gk, lossOf, max_seen,
                   result, others>>

\* one iteration; others: some other row of the batch was replaced
GramsIter ==
    /\ pc = "loop" /\ fn = "grams" /\ t < k /\ gk >= 2
    /\ TopkWidth(gk) <= NF
    /\ \E xn \in GramsCandidates(x_next, gk) :
       \E lc \in LossValues : \E lb \in LossValues : \E oth \in BOOLEAN :
        /\ Consistent(lossOf, lc, xn)
        /\ Consistent(Learn(lossOf, lc, xn), lb, x_best)
        /\ lossOf' = Learn(Learn(lossOf, lc, xn), lb, x_best)
        /\ loss' = lc
        /\ x_best' = GramsNextBest(x_best, xn, lc, lb)
        /\ gk' = GramsNextK(gk, GramsReplaceFlag(lc, lb) \/ oth)
        /\ others' = oth
        /\ x_next' = xn
    /\ x_prev' = x_next
    /\ t' = t + 1
    /\ queried' = TRUE
    /\ UNCHANGED <<x, method, fn, pc, k, use_sample, epsilon, alpha, grad, loss_natural,
                   loss_worst, x_worst, max_seen, result>>

\* the loop ends (steps used up, or k < 0.5) and x_best is returned
GramsReturn ==
    /\ pc = "loop" /\ fn = "grams" /\ (t = k \/ gk < 2)
    /\ result' = x_best
    /\ pc' = "done"
    /\ UNCHANGED <<x, method, fn, k, t, use_sample, epsilon, alpha, x_next, x_prev, grad,
                   loss, loss_natural, loss_worst, x_worst, x_best, gk, lossOf, max_seen,
                   queried, others>>

\* ------------------------------------------------------------ dispatcher
\* an unknown identifier falling through to a strategy
BranchFallThrough(m) == IF m \in Methods THEN m ELSE "bga_k"

\* the branch of inner_maximizer taken for a method identifier
Branch(m) == IF m \in Methods THEN m ELSE "raise"

inner_maximizer(m, iterations) ==
    /\ pc = "idle"
    /\ method' = m
    /\ \/ Branch(m) = "dfgsm_k" /\ dfgsm_k(iterations, EpsDefault, AlphaDefault, FALSE)
       \/ Branch(m) = "grams" /\ grams(KDefault)
       \/ Branch(m) = "rfgsm_k" /\ rfgsm_k(iterations, EpsDefault, FALSE)
       \/ Branch(m) = "bga_k" /\ bga_k(iterations, FALSE)
       \/ Branch(m) = "bca_k" /\ bca_k(iterations, FALSE)
       \/ Branch(m) = "grosse" /\ grosse_k(iterations, FALSE)
       \/ /\ Branch(m) = "natural"
          /\ result' = x
          /\ pc' = "done"
          /\ UNCHANGED <<x, fn, k, t, use_sample, epsilon, alpha, x_next, x_prev, grad,
                         loss, loss_natural, loss_worst, x_worst, x_best, gk, lossOf,
                         max_seen, queried, others>>
       \/ /\ Branch(m) = "raise"
          /\ pc' = "error"
          /\ UNCHANGED <<x, fn, k, t, use_sample, epsilon, alpha, x_next, x_prev, grad,
                         loss, loss_natural, loss_worst, x_worst, x_best, gk, lossOf,
                         max_seen, queried, result, others>>

Dispatch == \E m \in MethodIds : \E iterations \in 0..MaxIter : inner_maximizer(m, iterations)

DispatchFgsm == \E m \in {"dfgsm_k", "rfgsm_k"} : \E iterations \in 0..MaxIter :
                    inner_maximizer(m, iterations)

DispatchBit == \E m \in {"bga_k", "bca_k", "grosse"} : \E iterations \in 0..MaxIter :
                    inner_maximizer(m, iterations)

DispatchGrams == \E iterations \in 0..MaxIter : inner_maximizer("grams", iterations)

\* the strategies called directly, with their own parameters
CallFgsm ==
    /\ method' = ""
    /\ \E kk \in 0..MaxIter : \E eps \in EpsValues : \E us \in BOOLEAN :
        \/ \E al \in AlphaValues : dfgsm_k(kk, eps, al, us)
        \/ rfgsm_k(kk, eps, us)

CallBit ==
    /\ method' = ""
    /\ \E kk \in 0..MaxIter : \E us \in BOOLEAN :
        \/ bga_k(kk, us)
        \/ bca_k(kk, us)
        \/ grosse_k(kk, us)

CallGrams == method' = "" /\ \E k0 \in GramsK : grams(k0)

FgsmNext == DfgsmStep \/ RfgsmStep \/ DfgsmFinish \/ RfgsmFinish

BitNext == BgaIter \/ BcaIter \/ GrosseIter \/ BitReturn

GramsNext == GramsIter \/ GramsTopkError \/ GramsReturn

Next == Dispatch \/ CallFgsm \/ CallBit \/ CallGrams \/ FgsmNext \/ BitNext \/ GramsNext

Spec == Init /\ [][Next]_vars

\* the strategy families on their own
SpecFgsm == Init /\ [][DispatchFgsm \/ CallFgsm \/ FgsmNext]_vars

SpecBit == Init /\ [][DispatchBit \/ CallBit \/ BitNext]_vars

SpecGrams == Init /\ [][DispatchGrams \/ CallGrams \/ GramsNext]_vars

\* ------------------------------------------------------------------ claims
Changed == {i \in Feat : x_next[i] # x_prev[i]}

AllOnes == [i \in Feat |-> 1]

\* C1: the returned row keeps every component that is 1 in x (x' OR x == x'),
\* whatever strategy produced it.
C1_Feasible == pc = "done" => \A i \in Feat : x[i] = 1 => result[i] = 1

C1_Witness ==
    /\ pc = "done" /\ method = "bga_k" /\ t >= 2
    /\ result # x
    /\ \E i \in Feat : x[i] = 1

\* C2: dfgsm_k and rfgsm_k return a row whose loss is at least the natural
\* loss; a candidate with a strictly lower loss is replaced by the row of x.
C2_FallbackLoss ==
    (pc = "done" /\ fn \in FgsmStrategies) =>
        /\ lossOf[result] >= loss_natural
        /\ (loss < loss_natural => result = x)
        /\ (loss >= loss_natural => result = x_prev)

C2_Witness ==
    /\ pc = "done" /\ fn \in FgsmStrategies /\ t >= 1
    /\ x_prev # x
    /\ loss < loss_natural
    /\ result = x

\* C3: in bga_k, bca_k and grosse_k the tracked worst loss is the maximum of
\* the natural loss and the losses of all candidates so far, the tracked
\* vector has that loss, the tracker changes only on a strictly greater loss,
\* and the tracked vector is what is returned.
C3_Tracker ==
    (fn \in BitStrategies /\ pc \in {"loop", "done"}) =>
        /\ loss_worst = max_seen
        /\ lossOf[x_worst] = loss_worst
        /\ loss_worst >= loss_natural
        /\ (pc = "done" => result = x_worst /\ lossOf[result] >= loss_natural)

C3_TrackerStep ==
    (fn \in BitStrategies /\ pc = "loop" /\ (x_worst' # x_worst \/ loss_worst' # loss_worst)) =>
        /\ loss_worst' > loss_worst
        /\ loss_worst' = loss'
        /\ x_worst' = x_next'

\* C3: the tracker invariant in every state, the strict replacement in every step.
C3_BestSeen == []C3_Tracker /\ [][C3_TrackerStep]_vars

C3_Witness ==
    /\ fn \in BitStrategies /\ pc = "done" /\ t >= 2
    /\ loss_worst > loss_natural
    /\ loss < loss_worst
    /\ result # x_next

C5_UnknownRaises ==
    method \notin (Methods \cup {""}) =>
        /\ pc = "error"
        /\ fn = ""
        /\ ~queried
        /\ lossOf = [v \in BinVec |-> Unknown]
        /\ result = ZeroVec

C5_Witness == method = "bogus" /\ pc = "error"

\* C6: a non-initial iteration of grosse_k deselects no component that is
\* active in the candidate, whether it came from x or was added earlier.
C6_NeverDeselects ==
    (fn = "grosse_k" /\ pc \in {"loop", "done"} /\ t >= 2) =>
        \A i \in Feat : x_prev[i] = 1 => x_next[i] = 1

\* C7: a grams iteration replaces the best exactly when the candidate's loss
\* is strictly greater; k is doubled when a row was replaced and halved
\* otherwise; the loss of the best never decreases.
C7_Step ==
    (fn = "grams" /\ pc = "loop" /\ t' = t + 1) =>
        LET lc == loss'
            lb == lossOf'[x_best]
        IN  /\ lossOf'[x_next'] = lc
            /\ (lc > lb => x_best' = x_next')
            /\ (lc <= lb => x_best' = x_best)
            /\ ((lc > lb \/ others') => gk' = 2 * gk)
            /\ (~(lc > lb \/ others') => 2 * gk' = gk)
            /\ lossOf'[x_best'] >= lb

\* C7: every grams iteration accepts or rejects as C7_Step says.
C7_AcceptReject == [][C7_Step]_vars

C7_Witness ==
    /\ fn = "grams" /\ pc = "loop" /\ t >= 2
    /\ x_best # x
    /\ x_next # x_best
    /\ loss <= lossOf[x_best]
    /\ ~others

\* C8: at the start of every grams iteration the working candidate is the
\* current best.
C8_StartsFromBest ==
    (fn = "grams" /\ pc = "loop" /\ t < k /\ gk >= 2) => x_next = x_best

\* C9 as stated: in bga_k, bca_k and grosse_k a non-initial iteration on a
\* zero gradient, or on an all-active candidate, leaves the candidate and the
\* best-seen entry as they were.
C9_Step ==
    (/\ fn \in BitStrategies /\ pc = "loop" /\ t >= 1 /\ t' = t + 1
     /\ (grad' = ZeroVec \/ x_next = AllOnes)) =>
        /\ x_next' = x_next
        /\ loss_worst' = loss_worst
        /\ x_worst' = x_worst

C9_AmendedStep ==
    (fn \in BitStrategies /\ pc = "loop" /\ t >= 1 /\ t' = t + 1) =>
        /\ grad' = ZeroVec =>
              x_next' = [i \in Feat |-> IF x[i] = 1 \/ x_next[i] = 0 THEN 1 ELSE 0]
        /\ x = AllOnes =>
              /\ x_next' = x_next
              /\ loss_worst' = loss_worst
              /\ x_worst' = x_worst

C10_TopkWidthFits ==
    (fn = "grams" /\ method = "grams") =>
        /\ pc # "error"
        /\ (pc = "loop" /\ t < k /\ gk >= 2) =>
              /\ TopkWidth(gk) >= 1
              /\ TopkWidth(gk) <= TopkCap
              /\ TopkWidth(gk) <= NF

====
